---- MODULE Spec2Model ----
(***************************************************************************)
(* Model of examples/script_backend.py, the example ctf-sync script        *)
(* backend: one process invocation reads one JSON document from stdin,     *)
(* dispatches on its "action" and writes one document to stdout or to      *)
(* stderr.  The orchestrator invokes the process once per request; the     *)
(* model runs a bounded number of invocations one after the other and      *)
(* keeps the previous invocation's observable outcome for comparison.      *)
(***************************************************************************)
EXTENDS Integers, Sequences, FiniteSets, TLC

\* Number of invocations of the backend the orchestrator makes.
MaxRuns == 2

----------------------------------------------------------------------------
\* Python values held by the request.  Every value is a record with a type
\* tag t and a text s (the characters of a str, the digits of an int).

PyStr(s)  == [t |-> "str",  s |-> s]
PyInt(s)  == [t |-> "int",  s |-> s]
PyNone    == [t |-> "None", s |-> ""]
PyList    == [t |-> "list", s |-> "[]"]
PyDict(d) == [t |-> "dict", d |-> d]

\* Marker for a key that the request object does not carry.
Absent == [t |-> "absent", s |-> ""]

Keys == {"action", "challenge_id", "flag"}

\* JSON values a request can carry in each field (decoded form).
ActionVals == {PyStr("fetch"), PyStr("submit"), PyStr("solves"),
               PyStr("nope"), PyNone, PyInt("5")}
ChallengeIdVals == {PyStr("1"), PyStr("2"), PyStr("99"), PyInt("1"), PyList}
FlagVals == {PyStr("FLAG{hello}"), PyStr("FLAG{view_source}"),
             PyStr("flag{hello}"), PyNone}

\* The dict json.load builds for a JSON object with the given members.
MkReq(a, c, f) ==
    LET val == [k \in Keys |-> CASE k = "action" -> a
                                 [] k = "challenge_id" -> c
                                 [] k = "flag" -> f]
    IN  PyDict([k \in {x \in Keys : val[x] # Absent} |-> val[k]])

Requests == {MkReq(a, c, f) : a \in ActionVals \cup {Absent},
                              c \in ChallengeIdVals \cup {Absent},
                              f \in FlagVals \cup {Absent}}

\* What can arrive on stdin: text that is not JSON at all, JSON text whose
\* top-level value is not an object, or a JSON object.
Malformed == [t |-> "malformed", s |-> "xx"]
NonObjects == {PyList, PyInt("42"), PyNone}
Inputs == {Malformed} \cup NonObjects \cup Requests

----------------------------------------------------------------------------
\* Variant of Get: req.get(key, "") in place of req.get(key).
GetDefaultEmpty(req, key) ==
    IF key \in DOMAIN req.d THEN req.d[key] ELSE PyStr("")

\* dict.get(key): the value, or None when the key is missing.
Get(req, key) == IF key \in DOMAIN req.d THEN req.d[key] ELSE PyNone

\* Python == between two values of the kinds above.
PyEq(a, b) == a.t = b.t /\ a.s = b.s

\* str(v), as the f-string on line 64 formats it.
Str(v) == CASE v.t = "None" -> "None"
            [] v.t = "list" -> "[]"
            [] OTHER -> v.s

\* hash(v) succeeds.
Hashable(v) == v.t \notin {"list", "dict"}

\* json.dumps(obj) followed by print: one line holding one JSON document.
Dumps(obj) == [json |-> obj]

\* What the interpreter prints for an exception nobody caught.
Traceback(exc) == [traceback |-> exc]

\* Variant of Challenges: the second entry pasted from the first with its
\* id left unchanged.
ChallengesDupId ==
    << [id |-> "1", name |-> "sanity check", category |-> "misc",
        description |-> "flag is FLAG{hello}", points |-> 50,
        files |-> << >>],
       [id |-> "1", name |-> "baby web", category |-> "web",
        description |-> "look at the source", points |-> 100,
        files |-> << [name |-> "index.html",
                      url |-> "https://example.com/index.html"] >>] >>

\* The challenge list of the fetch handler.
Challenges ==
    << [id |-> "1", name |-> "sanity check", category |-> "misc",
        description |-> "flag is FLAG{hello}", points |-> 50,
        files |-> << >>],
       [id |-> "2", name |-> "baby web", category |-> "web",
        description |-> "look at the source", points |-> 100,
        files |-> << [name |-> "index.html",
                      url |-> "https://example.com/index.html"] >>] >>

\* Variant of FetchResponse: a challenge_id in the request narrows the list.
FetchFiltered(req) ==
    [challenges |->
        SelectSeq(Challenges,
                  LAMBDA c : \/ "challenge_id" \notin DOMAIN req.d
                             \/ req.d["challenge_id"] = PyStr(c.id))]

FetchResponse(req) == [challenges |-> Challenges]

SolvesResponse(req) ==
    [solves |-> << [challenge_id |-> "1",
                    solved_at |-> "2025-01-01T12:00:00Z"] >>]

\* correct_flags and its lookups.
correct_flags == [k \in {"1", "2"} |->
                    IF k = "1" THEN "FLAG{hello}" ELSE "FLAG{view_source}"]

InCorrectFlags(cid) == cid.t = "str" /\ cid.s \in DOMAIN correct_flags

\* Variant of SubmitResponse: the flag is compared with
\* correct_flags.get(challenge_id) before the membership test.
SubmitResponseLookup(challenge_id, flag) ==
    LET expected == IF InCorrectFlags(challenge_id)
                    THEN PyStr(correct_flags[challenge_id.s])
                    ELSE PyNone
    IN  IF PyEq(flag, expected)
        THEN [status |-> "accepted", message |-> "correct!"]
        ELSE IF ~InCorrectFlags(challenge_id)
        THEN [status |-> "error", message |-> "unknown challenge"]
        ELSE [status |-> "rejected", message |-> "wrong flag"]

SubmitResponse(challenge_id, flag) ==
    IF ~InCorrectFlags(challenge_id)
    THEN [status |-> "error", message |-> "unknown challenge"]
    ELSE IF PyEq(flag, PyStr(correct_flags[challenge_id.s]))
    THEN [status |-> "accepted", message |-> "correct!"]
    ELSE [status |-> "rejected", message |-> "wrong flag"]

UnknownResponse(action) == [error |-> "unknown action: " \o Str(action)]

----------------------------------------------------------------------------
VARIABLES
    given,       \* the input the orchestrator handed to this invocation
    stdin,       \* documents still unread on the input stream
    req,         \* local req of main
    action,      \* local action of main
    pc,          \* the statement main is about to execute
    response,    \* the object the submit handler has chosen to print
    exc,         \* the exception that is propagating, if any
    stdout,      \* lines written to the output stream
    stderr,      \* lines written to the error stream
    status,      \* exit status of the process
    visited,     \* the statements this invocation has been at, in order
    runs,        \* invocations started so far
    remembered   \* observable outcome of the previous invocation

vars == <<given, stdin, req, action, pc, response, exc, stdout, stderr,
          status, visited, runs, remembered>>

Unbound == [t |-> "unbound", s |-> ""]
NoResponse == [none |-> TRUE]

\* A fresh process: nothing read, nothing written, exit status 0 unless
\* something sets another one.
Init ==
    /\ \E in \in Inputs :
          /\ given = in
          /\ stdin = <<in>>
    /\ req = Unbound
    /\ action = Unbound
    /\ pc = "load"
    /\ response = NoResponse
    /\ exc = ""
    /\ stdout = << >>
    /\ stderr = << >>
    /\ status = 0
    /\ visited = <<"load">>
    /\ runs = 1
    /\ remembered = << >>

Goto(l) == pc' = l /\ visited' = Append(visited, l)

\* Variant of Load: a decode error is swallowed and an empty request is
\* used in its place.
LoadRecover ==
    /\ pc = "load"
    /\ stdin' = << >>
    /\ req' = IF Head(stdin).t = "malformed" THEN PyDict(<< >>)
              ELSE Head(stdin)
    /\ Goto("get")
    /\ UNCHANGED <<given, action, response, exc, stdout, stderr, status, runs,
                   remembered>>

\* line 9: req = json.load(sys.stdin)
Load ==
    /\ pc = "load"
    /\ stdin' = << >>
    /\ IF Head(stdin).t = "malformed"
       THEN /\ exc' = "JSONDecodeError"
            /\ Goto("raise")
            /\ UNCHANGED req
       ELSE /\ req' = Head(stdin)
            /\ Goto("get")
            /\ UNCHANGED exc
    /\ UNCHANGED <<given, action, response, stdout, stderr, status, runs,
                   remembered>>

\* line 10: action = req.get("action")
GetAction ==
    /\ pc = "get"
    /\ IF req.t # "dict"
       THEN /\ exc' = "AttributeError"
            /\ Goto("raise")
            /\ UNCHANGED action
       ELSE /\ action' = Get(req, "action")
            /\ Goto("dispatch")
            /\ UNCHANGED exc
    /\ UNCHANGED <<given, stdin, req, response, stdout, stderr, status, runs,
                   remembered>>

\* lines 12, 43, 56, 63: the if / elif / else chain over action
Branch(a) ==
    IF PyEq(a, PyStr("fetch")) THEN "fetch"
    ELSE IF PyEq(a, PyStr("submit")) THEN "submit"
    ELSE IF PyEq(a, PyStr("solves")) THEN "solves"
    ELSE "unknown"

Dispatch ==
    /\ pc = "dispatch"
    /\ Goto(Branch(action))
    /\ UNCHANGED <<given, stdin, req, action, response, exc, stdout, stderr,
                   status, runs, remembered>>

\* lines 13-41: print(json.dumps({"challenges": [...]}))
Fetch ==
    /\ pc = "fetch"
    /\ stdout' = Append(stdout, Dumps(FetchResponse(req)))
    /\ Goto("done")
    /\ UNCHANGED <<given, stdin, req, action, response, exc, stderr, status,
                   runs, remembered>>

\* lines 44-53: read the two fields and walk the if / elif / else chain;
\* the membership test hashes challenge_id and raises when it cannot.
Submit ==
    /\ pc = "submit"
    /\ LET challenge_id == Get(req, "challenge_id")
           flag == Get(req, "flag")
       IN  IF ~Hashable(challenge_id)
           THEN /\ exc' = "TypeError"
                /\ Goto("raise")
                /\ UNCHANGED response
           ELSE /\ response' = SubmitResponse(challenge_id, flag)
                /\ Goto("print_submit")
                /\ UNCHANGED exc
    /\ UNCHANGED <<given, stdin, req, action, stdout, stderr, status, runs,
                   remembered>>

\* lines 50, 52, 54: print(json.dumps({"status": ..., "message": ...}))
PrintSubmit ==
    /\ pc = "print_submit"
    /\ stdout' = Append(stdout, Dumps(response))
    /\ Goto("done")
    /\ UNCHANGED <<given, stdin, req, action, response, exc, stderr, status,
                   runs, remembered>>

\* lines 57-61: print(json.dumps({"solves": [...]}))
Solves ==
    /\ pc = "solves"
    /\ stdout' = Append(stdout, Dumps(SolvesResponse(req)))
    /\ Goto("done")
    /\ UNCHANGED <<given, stdin, req, action, response, exc, stderr, status,
                   runs, remembered>>

\* Variant of Unknown: the print without file=sys.stderr.
UnknownOnStdout ==
    /\ pc = "unknown"
    /\ stdout' = Append(stdout, Dumps(UnknownResponse(action)))
    /\ Goto("exit")
    /\ UNCHANGED <<given, stdin, req, action, response, exc, stderr, status,
                   runs, remembered>>

\* line 64: print(json.dumps({"error": ...}), file=sys.stderr)
Unknown ==
    /\ pc = "unknown"
    /\ stderr' = Append(stderr, Dumps(UnknownResponse(action)))
    /\ Goto("exit")
    /\ UNCHANGED <<given, stdin, req, action, response, exc, stdout, status,
                   runs, remembered>>

\* line 65: sys.exit(1)
ExitCode == 1

\* Variant of Exit: sys.exit() without a status.
ExitNoStatus ==
    /\ pc = "exit"
    /\ status' = 0
    /\ Goto("done")
    /\ UNCHANGED <<given, stdin, req, action, response, exc, stdout, stderr,
                   runs, remembered>>

Exit ==
    /\ pc = "exit"
    /\ status' = ExitCode
    /\ Goto("done")
    /\ UNCHANGED <<given, stdin, req, action, response, exc, stdout, stderr,
                   runs, remembered>>

\* An exception leaves main uncaught (line 69): the interpreter prints the
\* traceback on stderr and the process exits with status 1.
UncaughtStatus == 1

Raise ==
    /\ pc = "raise"
    /\ stderr' = Append(stderr, Traceback(exc))
    /\ status' = UncaughtStatus
    /\ Goto("done")
    /\ UNCHANGED <<given, stdin, req, action, response, exc, stdout, runs,
                   remembered>>

\* lines 68-69: the orchestrator starts the script again on a new request;
\* what the finished invocation showed to the outside is kept.
Outcome == [given |-> given, stdout |-> stdout, stderr |-> stderr,
            status |-> status]

Invoke ==
    /\ pc = "done"
    /\ runs < MaxRuns
    /\ runs' = runs + 1
    /\ remembered' = <<Outcome>>
    /\ \E in \in Inputs :
          /\ given' = in
          /\ stdin' = <<in>>
    /\ req' = Unbound
    /\ action' = Unbound
    /\ pc' = "load"
    /\ response' = NoResponse
    /\ exc' = ""
    /\ stdout' = << >>
    /\ stderr' = << >>
    /\ status' = 0
    /\ visited' = <<"load">>

Step == \/ Load \/ GetAction \/ Dispatch \/ Fetch \/ Submit \/ PrintSubmit
        \/ Solves \/ Unknown \/ Exit \/ Raise

Next == Step \/ Invoke

Spec == Init /\ [][Next]_vars

\* The interpreter runs main to completion: no statement waits on anything
\* once stdin has been handed over.
FairSpec == Spec /\ WF_vars(Step)

----------------------------------------------------------------------------
\* Vocabulary of the properties, stated on the input the orchestrator gave
\* and on what the process showed to the outside.

IsRequest(in) == in.t = "dict"

Has(in, key) == key \in DOMAIN in.d

HasAction(in, name) == Has(in, "action") /\ in.d["action"] = PyStr(name)

Recognized(in) ==
    HasAction(in, "fetch") \/ HasAction(in, "submit") \/ HasAction(in, "solves")

Terminated == pc = "done"

IsJson(line) == "json" \in DOMAIN line

ErrorUnknownChallenge == [status |-> "error", message |-> "unknown challenge"]
AcceptedCorrect == [status |-> "accepted", message |-> "correct!"]
RejectedWrongFlag == [status |-> "rejected", message |-> "wrong flag"]

\* C1: a request whose action is absent or is none of fetch, submit, solves
\* never gets anything on stdout, and its process ends with a non-zero
\* exit status.
C1_UnknownActionFails ==
    (IsRequest(given) /\ ~Recognized(given)) =>
        /\ stdout = << >>
        /\ Terminated => status # 0

C1_Witness ==
    /\ Terminated
    /\ IsRequest(given)
    /\ ~Has(given, "action")
    /\ status # 0

\* C2: every request whose action is fetch, submit or solves ends with exit
\* status 0, whatever its other fields hold.
C2_RecognizedExitsZero ==
    (Terminated /\ IsRequest(given) /\ Recognized(given)) => status = 0

\* C3: submit answers every (challenge_id, flag) pair with exactly the
\* response the table {"1": "FLAG{hello}", "2": "FLAG{view_source}"}
\* selects: error for an id that is not a key, accepted for a key with its
\* flag, rejected for a key with any other flag.
C3_Table == [k \in {"1", "2"} |->
               IF k = "1" THEN "FLAG{hello}" ELSE "FLAG{view_source}"]

C3_IsKey(in) ==
    /\ Has(in, "challenge_id")
    /\ in.d["challenge_id"].t = "str"
    /\ in.d["challenge_id"].s \in DOMAIN C3_Table

C3_Expected(in) ==
    IF ~C3_IsKey(in) THEN ErrorUnknownChallenge
    ELSE IF Has(in, "flag")
            /\ in.d["flag"] = PyStr(C3_Table[in.d["challenge_id"].s])
         THEN AcceptedCorrect
         ELSE RejectedWrongFlag

C3_SubmitTotal ==
    (Terminated /\ IsRequest(given) /\ HasAction(given, "submit")) =>
        stdout = << Dumps(C3_Expected(given)) >>

\* C4: a run that read a request ends having written exactly one JSON
\* document: on stdout and nothing on stderr when the action is recognized,
\* on stderr and nothing on stdout when it is not.
C4_OneDocumentOut ==
    (Terminated /\ IsRequest(given)) =>
        IF Recognized(given)
        THEN Len(stdout) = 1 /\ IsJson(stdout[1]) /\ stderr = << >>
        ELSE Len(stderr) = 1 /\ IsJson(stderr[1]) /\ stdout = << >>

\* C5 (as the specification words it): the diagnostic of the unknown-action
\* path is {"error": "unknown action: <v>"} with <v> the action's value when
\* the field is present and the empty string when it is absent.
C5_Text(in) ==
    IF Has(in, "action") THEN in.d["action"].s ELSE ""

C5_DiagnosticEmptyWhenAbsent ==
    (Terminated /\ IsRequest(given) /\ ~Recognized(given)
       /\ (Has(given, "action") => given.d["action"].t \in {"str", "int"})) =>
        stderr = << Dumps([error |-> "unknown action: " \o C5_Text(given)]) >>

\* C5 (amended): the diagnostic of the unknown-action path is
\* {"error": "unknown action: <v>"} with <v> the action's value when the
\* field is present and a string, and the text None when the field is absent
\* (or is JSON null).
C5_DiagnosticNoneWhenAbsent ==
    (Terminated /\ IsRequest(given) /\ ~Recognized(given)) =>
        /\ Len(stderr) = 1
        /\ IsJson(stderr[1])
        /\ DOMAIN stderr[1].json = {"error"}
        /\ (Has(given, "action") /\ given.d["action"].t = "str") =>
              stderr[1].json.error = "unknown action: " \o given.d["action"].s
        /\ (~Has(given, "action") \/ given.d["action"] = PyNone) =>
              stderr[1].json.error = "unknown action: None"

C5_Witness ==
    /\ Terminated
    /\ IsRequest(given)
    /\ ~Has(given, "action")
    /\ Len(stderr) = 1

\* C6: input that does not decode to a JSON object gets no response on
\* stdout, never reaches the dispatch or any handler, and its process ends
\* with one diagnostic on stderr and a non-zero exit status.
DispatchOrLater ==
    {"dispatch", "fetch", "submit", "print_submit", "solves", "unknown",
     "exit"}

C6_UnparsableIsFatal ==
    ~IsRequest(given) =>
        /\ stdout = << >>
        /\ \A i \in 1..Len(visited) : visited[i] \notin DispatchOrLater
        /\ Terminated => (Len(stderr) = 1 /\ status # 0)

C6_Witness ==
    /\ Terminated
    /\ given = Malformed
    /\ stderr # << >>

\* C7: with the backend's data fixed, what a run shows depends only on the
\* request: two fetch runs write the same output whatever their other
\* fields, two solves runs likewise, and two submit runs with the same
\* challenge_id and flag write the same output (hence the same status).
Field(in, key) == IF Has(in, key) THEN in.d[key] ELSE Absent

SameQuestion(a, b) ==
    \/ HasAction(a, "fetch") /\ HasAction(b, "fetch")
    \/ HasAction(a, "solves") /\ HasAction(b, "solves")
    \/ /\ HasAction(a, "submit") /\ HasAction(b, "submit")
       /\ Field(a, "challenge_id") = Field(b, "challenge_id")
       /\ Field(a, "flag") = Field(b, "flag")

C7_Deterministic ==
    (Terminated /\ Len(remembered) = 1 /\ IsRequest(given)
       /\ IsRequest(remembered[1].given)
       /\ SameQuestion(given, remembered[1].given)) =>
        stdout = remembered[1].stdout

C7_Witness ==
    /\ Terminated
    /\ Len(remembered) = 1
    /\ IsRequest(given)
    /\ IsRequest(remembered[1].given)
    /\ HasAction(given, "fetch")
    /\ HasAction(remembered[1].given, "fetch")
    /\ Has(given, "challenge_id")
    /\ ~Has(remembered[1].given, "challenge_id")
    /\ stdout # << >>

\* C8: a finished fetch has written one document whose challenges sequence
\* has exactly the entries "1" and "2" in that order, no id twice, every
\* entry with exactly the six fields, every file with name and url, and
\* every points an integer >= 0.
ChallengeFields ==
    {"id", "name", "category", "description", "points", "files"}

WellShaped(cs) ==
    /\ \A i, j \in 1..Len(cs) : cs[i].id = cs[j].id => i = j
    /\ \A i \in 1..Len(cs) :
          /\ DOMAIN cs[i] = ChallengeFields
          /\ cs[i].points \in Nat
          /\ \A k \in 1..Len(cs[i].files) :
                DOMAIN cs[i].files[k] = {"name", "url"}

C8_FetchShape ==
    (Terminated /\ IsRequest(given) /\ HasAction(given, "fetch")) =>
        /\ Len(stdout) = 1
        /\ IsJson(stdout[1])
        /\ DOMAIN stdout[1].json = {"challenges"}
        /\ WellShaped(stdout[1].json.challenges)
        /\ Len(stdout[1].json.challenges) = 2
        /\ stdout[1].json.challenges[1].id = "1"
        /\ stdout[1].json.challenges[2].id = "2"

C8_Witness ==
    /\ Terminated
    /\ IsRequest(given)
    /\ HasAction(given, "fetch")
    /\ Len(stdout) = 1

\* C9: a run goes AwaitingInput -> Dispatching -> Responding ->
\* Terminated with status 0, or AwaitingInput [-> Dispatching] -> Failing ->
\* Terminated with a non-zero status, and nothing else: no phase twice,
\* never both Responding and Failing, stdin read to its end before the
\* dispatch, every write made in Responding or Failing (so before
\* Terminated), and Terminated always reached.
Phase(l) ==
    CASE l \in {"load", "get"} -> "AwaitingInput"
      [] l \in {"dispatch", "submit"} -> "Dispatching"
      [] l \in {"fetch", "print_submit", "solves"} -> "Responding"
      [] l \in {"unknown", "exit", "raise"} -> "Failing"
      [] l = "done" -> "Terminated"

RECURSIVE Phases(_)
Phases(v) ==
    IF Len(v) = 0 THEN << >>
    ELSE IF Len(v) = 1 THEN << Phase(v[1]) >>
    ELSE LET rest == Phases(Tail(v))
         IN  IF Phase(v[1]) = Head(rest) THEN rest
             ELSE << Phase(v[1]) >> \o rest

IsPrefix(p, q) == Len(p) <= Len(q) /\ p = SubSeq(q, 1, Len(p))

ResponsePath ==
    <<"AwaitingInput", "Dispatching", "Responding", "Terminated">>
FailurePaths ==
    { <<"AwaitingInput", "Failing", "Terminated">>,
      <<"AwaitingInput", "Dispatching", "Failing", "Terminated">> }

OnAPath ==
    LET ph == Phases(visited)
    IN  /\ IsPrefix(ph, ResponsePath) \/ \E q \in FailurePaths : IsPrefix(ph, q)
        /\ Terminated => \/ ph = ResponsePath /\ status = 0
                         \/ ph \in FailurePaths /\ status # 0
        /\ ph[Len(ph)] = Phase(pc)
        /\ "Dispatching" \in {ph[i] : i \in 1..Len(ph)} => stdin = << >>

WritesInPhase ==
    (Len(stdout') > Len(stdout) \/ Len(stderr') > Len(stderr)) =>
        Phase(pc) \in {"Responding", "Failing"}

C9_LinearAndTerminates ==
    /\ []OnAPath
    /\ [][WritesInPhase]_vars
    /\ []<>Terminated

C9_Witness ==
    /\ Terminated
    /\ Phases(visited) =
          <<"AwaitingInput", "Dispatching", "Failing", "Terminated">>
    /\ HasAction(given, "submit")

\* C10: a submit that lacks challenge_id is answered error / unknown
\* challenge whether or not it carries a flag; a submit for "1" or "2" that
\* lacks flag is answered rejected / wrong flag; both on stdout, with
\* nothing on stderr and exit status 0; a missing flag is never accepted.
C10_MissingFieldsAreDomainLevel ==
    (IsRequest(given) /\ HasAction(given, "submit")) =>
        /\ ~Has(given, "challenge_id") =>
              /\ stderr = << >>
              /\ status = 0
              /\ Terminated => stdout = << Dumps(ErrorUnknownChallenge) >>
        /\ (C3_IsKey(given) /\ ~Has(given, "flag")) =>
              /\ stderr = << >>
              /\ status = 0
              /\ Terminated => stdout = << Dumps(RejectedWrongFlag) >>
        /\ ~Has(given, "flag") =>
              \A i \in 1..Len(stdout) : stdout[i] # Dumps(AcceptedCorrect)

C10_Witness ==
    /\ Terminated
    /\ IsRequest(given)
    /\ HasAction(given, "submit")
    /\ C3_IsKey(given)
    /\ ~Has(given, "flag")
    /\ Len(stdout) = 1

====
